---- MODULE Spec2Model ----
(***************************************************************************)
(* Model of the GCS access demo (src/app.py): a Flask front-end whose      *)
(* routes /, /list, /upload, /download, /delete and /health each call the  *)
(* object-storage SDK and map the outcome to an HTTP response.             *)
(*                                                                         *)
(* The bucket is the only shared state. Each worker thread serves one      *)
(* request at a time; a handler is cut into steps at its calls to the      *)
(* backend (exists, download, upload, delete), so that requests of         *)
(* different workers interleave exactly where the code can be preempted    *)
(* with an effect on what it observes.                                     *)
(***************************************************************************)
EXTENDS Integers, Sequences, FiniteSets, TLC

\* Longest object content (in bytes) a request uploads or the bucket holds.
MaxLen == 1

\* The request-handling threads of the web server.
Workers == {"w1", "w2"}

\* Object keys, in the backend's listing order (lexicographic).
KeyOrder == <<"a.txt", "b.txt">>

Keys == {KeyOrder[i] : i \in 1..Len(KeyOrder)}

\* Bytes of object content: '<' (ASCII, markup) and 0xFF (never valid UTF-8).
Bytes == {60, 255}

Contents == UNION {[1..n -> Bytes] : n \in 0..MaxLen}

BUCKET_NAME == "your-bucket-name"

VARIABLES
    bucket,   \* the backend's bucket: a function from the keys present to bytes
    pc,       \* per worker: "idle", "client", "checked" or "done"
    req,      \* per worker: the request being (or last) served
    resp,     \* per worker: the response of the last request served
    obs,      \* per worker: what the environment did to the request (history)
    hist,     \* per key: the last successful change made through the service
    basis,    \* per worker: hist of the request's key when the request began,
              \* reset by any later change of that key by another request
    faults    \* whether the environment may fail (client, backend, metadata)

vars == <<bucket, pc, req, resp, obs, hist, basis, faults>>

----------------------------------------------------------------------------
(* Requests *)

NoParams == [x \in {} |-> ""]

Param(v) == [filename |-> v]

FilePart(name, data) == [file |-> [filename |-> name, stream |-> data]]

Request(route, args, form, files) ==
    [route |-> route, args |-> args, form |-> form, files |-> files]

NoRequest == Request("", NoParams, NoParams, NoParams)

Names == {""} \cup Keys

HomeRequests == {Request("home", NoParams, NoParams, NoParams)}

ListRequests == {Request("list", NoParams, NoParams, NoParams)}

HealthRequests == {Request("health", NoParams, NoParams, NoParams)}

UploadRequests ==
    {Request("upload", NoParams, f, NoParams) : f \in {NoParams, Param(KeyOrder[1])}}
    \cup {Request("upload", NoParams, NoParams, FilePart(n, c)) : n \in Names, c \in Contents}

DownloadRequests ==
    {Request("download", NoParams, f, NoParams) : f \in {NoParams, Param(KeyOrder[1])}}
    \cup {Request("download", Param(n), NoParams, NoParams) : n \in Names}

DeleteRequests ==
    {Request("delete", a, NoParams, NoParams) : a \in {NoParams, Param(KeyOrder[1])}}
    \cup {Request("delete", NoParams, Param(n), NoParams) : n \in Names}

\* Python's `not params.get('filename')`: absent (None) or the empty string.
Falsy(params) == "filename" \notin DOMAIN params \/ params.filename = ""

----------------------------------------------------------------------------
(* Responses *)

Blank ==
    [tpl |-> "", filename |-> "", content |-> <<>>, files |-> <<>>,
     message |-> "", count |-> 0, identity |-> "", message_class |-> "",
     status |-> "", authenticated |-> "", error |-> ""]

Response(status, body) == [status |-> status, body |-> body]

NoResponse == Response(0, Blank)

Text(status, message) == Response(status, [Blank EXCEPT !.tpl = "text", !.message = message])

TextFor(status, message, filename) ==
    Response(status, [Blank EXCEPT !.tpl = "text", !.message = message,
                                   !.filename = filename])

TextError(status, message, description) ==
    Response(status, [Blank EXCEPT !.tpl = "text", !.message = message,
                                   !.error = description])

----------------------------------------------------------------------------
(* The environment: client construction, the metadata server, the backend *)

NoObs == [client |-> "none", backend |-> "none", idclient |-> "none", meta |-> 0]

ClientOutcomes == IF faults THEN {"ok", "fail"} ELSE {"ok"}

CallOutcomes == IF faults THEN {"ok", "error"} ELSE {"ok"}

ListOutcomes == IF faults THEN {"ok", "api_error", "error"} ELSE {"ok"}

\* The metadata query: -1 when requests.get raises, else the HTTP status.
MetaOutcomes == IF faults THEN {-1, 200, 404} ELSE {200}

SERVICE_ACCOUNT == "demo-sa@demo-project.iam.gserviceaccount.com"

PROJECT_IDENTITY == "Authenticated (Project: demo-project)"

UNKNOWN_IDENTITY == "Unknown (Not properly authenticated)"

\* get_storage_client(): the client, or None when storage.Client() raises.
get_storage_client(outcome) == outcome = "ok"

get_identity(client, meta) ==
    IF client # "ok" THEN UNKNOWN_IDENTITY
    ELSE IF meta = -1 THEN UNKNOWN_IDENTITY
    ELSE IF meta = 200 THEN SERVICE_ACCOUNT
    ELSE PROJECT_IDENTITY

RECURSIVE decode(_)
\* bytes.decode('utf-8') for one- and two-byte sequences.
decode(b) ==
    IF b = <<>> THEN [ok |-> TRUE, text |-> <<>>]
    ELSE IF b[1] < 128
    THEN LET r == decode(Tail(b))
         IN [ok |-> r.ok, text |-> IF r.ok THEN <<b[1]>> \o r.text ELSE <<>>]
    ELSE IF b[1] \in 194..223 /\ Len(b) >= 2 /\ b[2] \in 128..191
    THEN LET r == decode(Tail(Tail(b)))
         IN [ok |-> r.ok,
             text |-> IF r.ok THEN <<(b[1] - 192) * 64 + (b[2] - 128)>> \o r.text
                      ELSE <<>>]
    ELSE [ok |-> FALSE, text |-> <<>>]

\* blob.exists()
exists(b, k) == k \in DOMAIN b

\* blob.upload_from_file(file): creates or silently replaces the object.
upload_from_file(b, k, data) ==
    [x \in DOMAIN b \cup {k} |-> IF x = k THEN data ELSE b[x]]

\* blob.delete() on an object that exists.
delete(b, k) == [x \in DOMAIN b \ {k} |-> b[x]]

\* Mutant of list_blobs: the listing stops after its first result
\* (list_blobs(max_results=1)).
list_blobs_first_page(b) ==
    LET all == SelectSeq(KeyOrder, LAMBDA k : k \in DOMAIN b)
    IN IF all = <<>> THEN <<>> ELSE <<all[1]>>

\* bucket.list_blobs(): every object, in key order.
list_blobs(b) == SelectSeq(KeyOrder, LAMBDA k : k \in DOMAIN b)

----------------------------------------------------------------------------
(* History kept for the statement of the properties (not program state) *)

\* The last successful change of a key: none yet, an upload (of `data`, over an
\* object that existed or not), or a delete.
NoHist == [op |-> "none", data |-> <<>>, over |-> FALSE]

Uploaded(data, over) == [op |-> "upload", data |-> data, over |-> over]

Deleted == [op |-> "delete", data |-> <<>>, over |-> FALSE]

\* What a request can rely on about its key: the key's history and presence
\* when the request arrived, as long as no other request changes the key.
NoBasis == [hist |-> NoHist, present |-> "unknown"]

Snapshot(k) ==
    [hist |-> hist[k], present |-> IF k \in DOMAIN bucket THEN "yes" ELSE "no"]

\* The request names an object: it carries a non-empty filename where its
\* route reads it.
Addressed(r) ==
    \/ r.route = "upload" /\ "file" \in DOMAIN r.files /\ r.files.file.filename # ""
    \/ r.route = "download" /\ ~Falsy(r.args)
    \/ r.route = "delete" /\ ~Falsy(r.form)

\* The key a request that names an object addresses.
KeyOf(r) ==
    IF r.route = "upload" THEN r.files.file.filename
    ELSE IF r.route = "download" THEN r.args.filename
    ELSE r.form.filename

InFlight(w) == pc[w] \in {"client", "checked"}

Free(w) == pc[w] \in {"idle", "done"}

\* A change of key k by worker v ends what the other requests in flight on k
\* could rely on.
Invalidate(k, v) ==
    [w \in Workers |->
        IF w # v /\ InFlight(w) /\ KeyOf(req[w]) = k THEN NoBasis ELSE basis[w]]

----------------------------------------------------------------------------
(* The handlers, as functions of the request, the environment and the bucket *)

Page(identity, message, message_class, files, count, detail) ==
    Response(200, [Blank EXCEPT !.tpl = "HOME_TEMPLATE", !.identity = identity,
                                !.filename = BUCKET_NAME, !.message = message,
                                !.message_class = message_class, !.files = files,
                                !.count = count, !.error = detail])

home(identity) == Page(identity, "", "", <<>>, 0, "")

list_objects(b, c, l, identity) ==
    IF ~get_storage_client(c)
    THEN Page(identity,
              "Failed to create storage client. Check Workload Identity configuration.",
              "error", <<>>, 0, "")
    ELSE IF l = "api_error"
    THEN Page(identity, "GCS Error: {}", "error", <<>>, 0, "GoogleAPIError")
    ELSE IF l = "error"
    THEN Page(identity, "Error: {}", "error", <<>>, 0, "Exception")
    ELSE LET files == list_blobs(b)
         IN Page(identity, "Found {} files in bucket", "success", files, Len(files), "")

Json(status, health_status, authenticated, error) ==
    Response(status, [Blank EXCEPT !.tpl = "json", !.status = health_status,
                                   !.authenticated = authenticated, !.error = error])

\* Mutant of health: the probe's failure is swallowed.
health_unprobed(c, p) ==
    IF get_storage_client(c) THEN Json(200, "healthy", "true", "")
    ELSE Json(500, "unhealthy", "false", "")

health(c, p) ==
    IF get_storage_client(c)
    THEN IF p = "ok" THEN Json(200, "healthy", "true", "")
         ELSE Json(500, "unhealthy", "", "Exception")
    ELSE Json(500, "unhealthy", "false", "")

ClientError == Text(500, "Storage client error")

\* Rejected before get_storage_client() is called.
Rejected(response) == [resp |-> response, client |-> "none"]

\* After get_storage_client(), whose outcome is c: the handler goes on
\* (NoResponse) or ends with the client error.
Acquired(c) ==
    [resp |-> IF get_storage_client(c) THEN NoResponse ELSE ClientError, client |-> c]

\* The checks of a handler before its first backend call: the response that
\* ends the request there (NoResponse when the handler goes on) and the
\* outcome of the client construction ("none" when it was not attempted).
upload_file_entry(r, c) ==
    IF "file" \notin DOMAIN r.files THEN Rejected(Text(400, "No file part"))
    ELSE IF r.files.file.filename = "" THEN Rejected(Text(400, "No selected file"))
    ELSE Acquired(c)

\* Mutant of download_file_entry: the client is acquired before the parameter
\* is checked.
download_file_entry_client_first(r, c) ==
    IF ~get_storage_client(c) THEN Acquired(c)
    ELSE IF Falsy(r.args) THEN [resp |-> Text(400, "Filename required"), client |-> c]
    ELSE Acquired(c)

download_file_entry(r, c) ==
    IF Falsy(r.args) THEN Rejected(Text(400, "Filename required"))
    ELSE Acquired(c)

delete_file_entry(r, c) ==
    IF Falsy(r.form) THEN Rejected(Text(400, "Filename required"))
    ELSE Acquired(c)

\* Mutant of upload_file_write: the stream was read before the upload, which
\* stores an empty object.
upload_file_write_exhausted(b, r, o) ==
    LET k == r.files.file.filename
    IN IF o = "ok"
       THEN [bucket |-> upload_from_file(b, k, <<>>),
             backend |-> "ok",
             resp |-> Response(200, [Blank EXCEPT !.tpl = "upload_ok", !.filename = k,
                                                  !.message = BUCKET_NAME])]
       ELSE [bucket |-> b, backend |-> "error",
             resp |-> TextError(500, "Error uploading file: {}", "Exception")]

\* Mutant of upload_file_write: the object name is derived from the filename
\* by a sanitisation that maps different filenames to one name.
upload_file_write_flattened(b, r, o) ==
    LET k == r.files.file.filename
    IN IF o = "ok"
       THEN [bucket |-> upload_from_file(b, KeyOrder[1], r.files.file.stream),
             backend |-> "ok",
             resp |-> Response(200, [Blank EXCEPT !.tpl = "upload_ok", !.filename = k,
                                                  !.message = BUCKET_NAME])]
       ELSE [bucket |-> b, backend |-> "error",
             resp |-> TextError(500, "Error uploading file: {}", "Exception")]

\* Mutant of upload_file_write: an exception raised after the object was
\* written is answered with 500.
upload_file_write_then_fail(b, r, o) ==
    LET k == r.files.file.filename
    IN IF o = "ok"
       THEN [bucket |-> upload_from_file(b, k, r.files.file.stream),
             backend |-> "ok",
             resp |-> Response(200, [Blank EXCEPT !.tpl = "upload_ok", !.filename = k,
                                                  !.message = BUCKET_NAME])]
       ELSE [bucket |-> upload_from_file(b, k, r.files.file.stream),
             backend |-> "error",
             resp |-> TextError(500, "Error uploading file: {}", "Exception")]

\* blob.upload_from_file and the response after it.
upload_file_write(b, r, o) ==
    LET k == r.files.file.filename
    IN IF o = "ok"
       THEN [bucket |-> upload_from_file(b, k, r.files.file.stream),
             backend |-> "ok",
             resp |-> Response(200, [Blank EXCEPT !.tpl = "upload_ok", !.filename = k,
                                                  !.message = BUCKET_NAME])]
       ELSE [bucket |-> b, backend |-> "error",
             resp |-> TextError(500, "Error uploading file: {}", "Exception")]

\* blob.exists() in /download and /delete: NoResponse when the object exists.
exists_check(b, k, o, what) ==
    IF o # "ok"
    THEN [backend |-> "error", resp |-> TextError(500, what, "Exception")]
    ELSE IF ~exists(b, k)
    THEN [backend |-> "ok", resp |-> TextFor(404, "File {} not found", k)]
    ELSE [backend |-> "ok", resp |-> NoResponse]

\* Mutant of download_file_exists: the handler does not answer 404 itself.
download_file_exists_unchecked(b, r, o) ==
    IF o # "ok"
    THEN [backend |-> "error",
          resp |-> TextError(500, "Error downloading file: {}", "Exception")]
    ELSE [backend |-> "ok", resp |-> NoResponse]

download_file_exists(b, r, o) ==
    exists_check(b, r.args.filename, o, "Error downloading file: {}")

\* Mutant of delete_file_exists: the handler does not answer 404 itself.
delete_file_exists_unchecked(b, r, o) ==
    IF o # "ok"
    THEN [backend |-> "error",
          resp |-> TextError(500, "Error deleting file: {}", "Exception")]
    ELSE [backend |-> "ok", resp |-> NoResponse]

delete_file_exists(b, r, o) ==
    exists_check(b, r.form.filename, o, "Error deleting file: {}")

\* blob.download_as_text() and the response after it.
download_file_fetch(b, r, o) ==
    LET k == r.args.filename
        what == "Error downloading file: {}"
    IN IF o # "ok"
       THEN [backend |-> "error", resp |-> TextError(500, what, "Exception")]
       ELSE IF ~exists(b, k)
       THEN [backend |-> "notfound", resp |-> TextError(500, what, "NotFound")]
       ELSE IF ~decode(b[k]).ok
       THEN [backend |-> "decode", resp |-> TextError(500, what, "UnicodeDecodeError")]
       ELSE [backend |-> "ok",
             resp |-> Response(200, [Blank EXCEPT !.tpl = "download_ok",
                                                  !.filename = k,
                                                  !.content = decode(b[k]).text])]

\* Mutant of delete_file_call: NotFound from blob.delete() is taken as success.
delete_file_call_lenient(b, r, o) ==
    LET k == r.form.filename
    IN IF o # "ok"
       THEN [bucket |-> b, backend |-> "error",
             resp |-> TextError(500, "Error deleting file: {}", "Exception")]
       ELSE [bucket |-> delete(b, k), backend |-> IF exists(b, k) THEN "ok" ELSE "notfound",
             resp |-> Response(200, [Blank EXCEPT !.tpl = "delete_ok", !.filename = k,
                                                  !.message = BUCKET_NAME])]

\* blob.delete() and the response after it.
delete_file_call(b, r, o) ==
    LET k == r.form.filename
        what == "Error deleting file: {}"
    IN IF o # "ok"
       THEN [bucket |-> b, backend |-> "error",
             resp |-> TextError(500, what, "Exception")]
       ELSE IF ~exists(b, k)
       THEN [bucket |-> b, backend |-> "notfound",
             resp |-> TextError(500, what, "NotFound")]
       ELSE [bucket |-> delete(b, k), backend |-> "ok",
             resp |-> Response(200, [Blank EXCEPT !.tpl = "delete_ok", !.filename = k,
                                                  !.message = BUCKET_NAME])]

----------------------------------------------------------------------------
(* The steps of the workers *)

\* Worker w ends its request r with `response`.
Finish(w, r, response, o) ==
    /\ pc' = [pc EXCEPT ![w] = "done"]
    /\ req' = [req EXCEPT ![w] = r]
    /\ resp' = [resp EXCEPT ![w] = response]
    /\ obs' = [obs EXCEPT ![w] = o]

\* Worker w goes on with its request r at `at`.
Proceed(w, r, at, o) ==
    /\ pc' = [pc EXCEPT ![w] = at]
    /\ req' = [req EXCEPT ![w] = r]
    /\ resp' = [resp EXCEPT ![w] = NoResponse]
    /\ obs' = [obs EXCEPT ![w] = o]

IdentityObs(o, c, m) ==
    [o EXCEPT !.idclient = c, !.meta = IF c = "ok" THEN m ELSE 0]

Home(w) ==
    /\ Free(w)
    /\ \E r \in HomeRequests, c \in ClientOutcomes, m \in MetaOutcomes :
          Finish(w, r, home(get_identity(c, m)), IdentityObs(NoObs, c, m))
    /\ basis' = [basis EXCEPT ![w] = NoBasis]
    /\ UNCHANGED <<bucket, hist, faults>>

ListObjects(w) ==
    /\ Free(w)
    /\ \E r \in ListRequests, c \in ClientOutcomes, l \in ListOutcomes,
          ic \in ClientOutcomes, m \in MetaOutcomes :
          Finish(w, r, list_objects(bucket, c, l, get_identity(ic, m)),
                 IdentityObs([NoObs EXCEPT !.client = c,
                                           !.backend = IF c = "ok" THEN l ELSE "none"],
                             ic, m))
    /\ basis' = [basis EXCEPT ![w] = NoBasis]
    /\ UNCHANGED <<bucket, hist, faults>>

Health(w) ==
    /\ Free(w)
    /\ \E r \in HealthRequests, c \in ClientOutcomes, p \in CallOutcomes :
          Finish(w, r, health(c, p),
                 [NoObs EXCEPT !.client = c, !.backend = IF c = "ok" THEN p ELSE "none"])
    /\ basis' = [basis EXCEPT ![w] = NoBasis]
    /\ UNCHANGED <<bucket, hist, faults>>

\* Entry of a handler: the request arrives, is validated, the client acquired.
Enter(w, r, e) ==
    /\ IF e.resp = NoResponse
       THEN Proceed(w, r, "client", [NoObs EXCEPT !.client = e.client])
       ELSE Finish(w, r, e.resp, [NoObs EXCEPT !.client = e.client])
    /\ basis' = [basis EXCEPT ![w] =
                    IF Addressed(r) THEN Snapshot(KeyOf(r)) ELSE NoBasis]
    /\ UNCHANGED <<bucket, hist, faults>>

UploadBegin(w) ==
    /\ Free(w)
    /\ \E r \in UploadRequests, c \in ClientOutcomes :
          Enter(w, r, upload_file_entry(r, c))

UploadWrite(w) ==
    /\ pc[w] = "client"
    /\ req[w].route = "upload"
    /\ \E o \in CallOutcomes :
          LET s == upload_file_write(bucket, req[w], o)
              k == KeyOf(req[w])
          IN /\ bucket' = s.bucket
             /\ Finish(w, req[w], s.resp, [obs[w] EXCEPT !.backend = s.backend])
             /\ hist' = IF s.backend = "ok"
                        THEN [hist EXCEPT ![k] = Uploaded(req[w].files.file.stream,
                                                            exists(bucket, k))]
                        ELSE hist
             /\ basis' = IF s.backend = "ok" THEN Invalidate(k, w) ELSE basis
    /\ UNCHANGED faults

DownloadBegin(w) ==
    /\ Free(w)
    /\ \E r \in DownloadRequests, c \in ClientOutcomes :
          Enter(w, r, download_file_entry(r, c))

\* The existence check of /download and /delete.
Exists(w, s) ==
    /\ IF s.resp = NoResponse
       THEN Proceed(w, req[w], "checked", [obs[w] EXCEPT !.backend = s.backend])
       ELSE Finish(w, req[w], s.resp, [obs[w] EXCEPT !.backend = s.backend])
    /\ UNCHANGED <<bucket, hist, basis, faults>>

DownloadExists(w) ==
    /\ pc[w] = "client"
    /\ req[w].route = "download"
    /\ \E o \in CallOutcomes : Exists(w, download_file_exists(bucket, req[w], o))

DownloadFetch(w) ==
    /\ pc[w] = "checked"
    /\ req[w].route = "download"
    /\ \E o \in CallOutcomes :
          LET s == download_file_fetch(bucket, req[w], o)
          IN Finish(w, req[w], s.resp, [obs[w] EXCEPT !.backend = s.backend])
    /\ UNCHANGED <<bucket, hist, basis, faults>>

DeleteBegin(w) ==
    /\ Free(w)
    /\ \E r \in DeleteRequests, c \in ClientOutcomes :
          Enter(w, r, delete_file_entry(r, c))

DeleteExists(w) ==
    /\ pc[w] = "client"
    /\ req[w].route = "delete"
    /\ \E o \in CallOutcomes : Exists(w, delete_file_exists(bucket, req[w], o))

DeleteCall(w) ==
    /\ pc[w] = "checked"
    /\ req[w].route = "delete"
    /\ \E o \in CallOutcomes :
          LET s == delete_file_call(bucket, req[w], o)
              k == KeyOf(req[w])
          IN /\ bucket' = s.bucket
             /\ Finish(w, req[w], s.resp, [obs[w] EXCEPT !.backend = s.backend])
             /\ hist' = IF s.backend = "ok" THEN [hist EXCEPT ![k] = Deleted] ELSE hist
             /\ basis' = IF s.backend = "ok" THEN Invalidate(k, w) ELSE basis
    /\ UNCHANGED faults

----------------------------------------------------------------------------
(* Specifications *)

Buckets == UNION {[S -> Contents] : S \in SUBSET Keys}

Idle ==
    /\ pc = [w \in Workers |-> "idle"]
    /\ req = [w \in Workers |-> NoRequest]
    /\ resp = [w \in Workers |-> NoResponse]
    /\ obs = [w \in Workers |-> NoObs]
    /\ hist = [k \in Keys |-> NoHist]
    /\ basis = [w \in Workers |-> NoBasis]

\* The service with no request yet, over any bucket, in an environment that
\* may fail.
Init ==
    /\ bucket \in Buckets
    /\ faults = TRUE
    /\ Idle

\* The worker hands its response to the web server and is free again.
Deliver(w) ==
    /\ pc[w] = "done"
    /\ pc' = [pc EXCEPT ![w] = "idle"]
    /\ req' = [req EXCEPT ![w] = NoRequest]
    /\ resp' = [resp EXCEPT ![w] = NoResponse]
    /\ obs' = [obs EXCEPT ![w] = NoObs]
    /\ basis' = [basis EXCEPT ![w] = NoBasis]
    /\ UNCHANGED <<bucket, hist, faults>>

\* A response is delivered by the step after the one that produced it: the
\* delivery touches the worker's locals only, so every other interleaving of
\* it is equivalent to this one. While a response is held, the bucket is
\* therefore as the handler's last step left it.
Quiet == \A w \in Workers : pc[w] # "done"

Next ==
    \E w \in Workers :
        \/ Quiet /\ Home(w)
        \/ Quiet /\ ListObjects(w)
        \/ Quiet /\ Health(w)
        \/ Quiet /\ UploadBegin(w)
        \/ Quiet /\ UploadWrite(w)
        \/ Quiet /\ DownloadBegin(w)
        \/ Quiet /\ DownloadExists(w)
        \/ Quiet /\ DownloadFetch(w)
        \/ Quiet /\ DeleteBegin(w)
        \/ Quiet /\ DeleteExists(w)
        \/ Quiet /\ DeleteCall(w)
        \/ Deliver(w)

Spec == Init /\ [][Next]_vars

\* Two simultaneous /upload requests with different filenames, both past
\* their entry checks, in an environment that does not fail.
ValidUploads == {r \in UploadRequests : upload_file_entry(r, "ok").resp = NoResponse}

InitUploads ==
    /\ bucket \in Buckets
    /\ faults = FALSE
    /\ req \in {f \in [Workers -> ValidUploads] :
                   \A v, w \in Workers : v # w => KeyOf(f[v]) # KeyOf(f[w])}
    /\ pc = [w \in Workers |-> "client"]
    /\ resp = [w \in Workers |-> NoResponse]
    /\ obs = [w \in Workers |-> [NoObs EXCEPT !.client = "ok"]]
    /\ hist = [k \in Keys |-> NoHist]
    /\ basis = [w \in Workers |-> NoBasis]

NextUploads == \E w \in Workers : UploadWrite(w)

SpecUploads == InitUploads /\ [][NextUploads]_vars

\* Simultaneous /delete requests for one key that exists, all past their entry
\* checks, in an environment that does not fail (the backend's delete still
\* raises NotFound on an absent object).
InitDeletes ==
    /\ faults = FALSE
    /\ \E k \in Keys :
          /\ bucket \in {b \in Buckets : k \in DOMAIN b}
          /\ req = [w \in Workers |-> Request("delete", NoParams, Param(k), NoParams)]
    /\ pc = [w \in Workers |-> "client"]
    /\ resp = [w \in Workers |-> NoResponse]
    /\ obs = [w \in Workers |-> [NoObs EXCEPT !.client = "ok"]]
    /\ hist = [k \in Keys |-> NoHist]
    /\ basis = [w \in Workers |-> NoBasis]

NextDeletes ==
    \E w \in Workers :
        \/ DeleteExists(w)
        \/ DeleteCall(w)

SpecDeletes == InitDeletes /\ [][NextDeletes]_vars

----------------------------------------------------------------------------
(* Properties *)

Done(w) == pc[w] = "done"

\* The step in which worker w produces its response.
Finishes(w) == pc[w] # "done" /\ pc'[w] = "done"

\* The environment failed the request: no client, or a backend call raised.
EnvFailed(w) == obs[w].client = "fail" \/ obs[w].backend = "error"

\* The request lacks the parameter its route requires.
MissingParam(r) ==
    \/ r.route = "upload" /\ ("file" \notin DOMAIN r.files \/ r.files.file.filename = "")
    \/ r.route = "download" /\ "filename" \notin DOMAIN r.args
    \/ r.route = "delete" /\ "filename" \notin DOMAIN r.form

\* C1 as stated: every /download and /delete request for an object that does
\* not exist is answered with exactly 404 and leaves the bucket unchanged.
C1_AbsentAlways404 ==
    [][\A w \in Workers :
          (/\ Finishes(w)
           /\ req'[w].route \in {"download", "delete"}
           /\ basis'[w].present = "no")
          => (resp'[w].status = 404 /\ bucket' = bucket)]_vars

\* C1 amended: a /download or /delete request for a non-empty filename whose
\* object is absent from its arrival on is answered with 404 when the storage
\* client is constructed and the existence check does not raise, and with 500
\* otherwise; either way the bucket is unchanged.
C1_Absent404UnlessEnvFails ==
    [][\A w \in Workers :
          (/\ Finishes(w)
           /\ req'[w].route \in {"download", "delete"}
           /\ basis'[w].present = "no")
          => /\ resp'[w].status = IF EnvFailed(w)' THEN 500 ELSE 404
             /\ bucket' = bucket]_vars

C1_Witness ==
    \E w \in Workers :
        /\ Done(w)
        /\ req[w].route = "delete"
        /\ basis[w].present = "no"
        /\ resp[w].status = 404

\* C2: a request without its required parameter (/upload without a `file` part
\* or with an empty filename, /download without `filename` in the query,
\* /delete without `filename` in the form) is answered with 400 in the step it
\* arrives, before any storage client is acquired, and the bucket is unchanged.
C2_MissingParam400 ==
    [][\A w \in Workers :
          (Free(w) /\ pc'[w] # "idle" /\ MissingParam(req'[w]))
          => /\ pc'[w] = "done"
             /\ resp'[w].status = 400
             /\ obs'[w].client = "none"
             /\ bucket' = bucket]_vars

C2_Witness ==
    \E w \in Workers :
        /\ Done(w)
        /\ req[w].route = "delete"
        /\ "filename" \in DOMAIN req[w].args
        /\ resp[w].status = 400
        /\ bucket # <<>>

\* C3: /health answers 200 with authenticated:true exactly when the client is
\* constructed and the probe succeeds; otherwise 500, with authenticated:false
\* when the client is unavailable and with an error field when the probe raises.
C3_HealthIff ==
    \A w \in Workers :
        (Done(w) /\ req[w].route = "health")
        => LET b == resp[w].body
           IN /\ (resp[w].status = 200 /\ b.authenticated = "true")
                    <=> (obs[w].client = "ok" /\ obs[w].backend = "ok")
              /\ resp[w].status \in {200, 500}
              /\ resp[w].status = 200 => b.status = "healthy"
              /\ obs[w].client = "fail"
                    => (resp[w].status = 500 /\ b.status = "unhealthy"
                        /\ b.authenticated = "false" /\ b.error = "")
              /\ (obs[w].client = "ok" /\ obs[w].backend = "error")
                    => (resp[w].status = 500 /\ b.status = "unhealthy"
                        /\ b.authenticated = "" /\ b.error # "")

C3_Witness ==
    \E w \in Workers :
        /\ Done(w)
        /\ req[w].route = "health"
        /\ resp[w].status = 500
        /\ resp[w].body.error # ""

\* C4 as stated: a /download of K that follows a successful /upload of text C
\* under K, with no upload or delete of K in between, returns 200 with C.
C4_RoundTripAlways200 ==
    \A w \in Workers :
        (/\ Done(w)
         /\ req[w].route = "download"
         /\ basis[w].hist.op = "upload"
         /\ decode(basis[w].hist.data).ok)
        => /\ resp[w].status = 200
           /\ resp[w].body.content = decode(basis[w].hist.data).text

\* C4 amended: such a /download returns 200 with a body whose content is C
\* (the latest content uploaded under K, whether or not the upload replaced an
\* object) when the storage client is constructed and no backend call raises,
\* and 500 otherwise.
C4_RoundTripUnlessEnvFails ==
    \A w \in Workers :
        (/\ Done(w)
         /\ req[w].route = "download"
         /\ basis[w].hist.op = "upload"
         /\ decode(basis[w].hist.data).ok)
        => IF EnvFailed(w)
           THEN resp[w].status = 500
           ELSE /\ resp[w].status = 200
                /\ resp[w].body.tpl = "download_ok"
                /\ resp[w].body.content = decode(basis[w].hist.data).text

C4_Witness ==
    \E w \in Workers :
        /\ Done(w)
        /\ req[w].route = "download"
        /\ basis[w].hist = Uploaded(<<60>>, TRUE)
        /\ resp[w].status = 200
        /\ resp[w].body.content = <<60>>

\* C5 as stated: after a /delete of K returned 200, a later /delete of K with
\* no upload of K in between returns 404.
C5_SecondDeleteAlways404 ==
    \A w \in Workers :
        (Done(w) /\ req[w].route = "delete" /\ basis[w].hist.op = "delete")
        => resp[w].status = 404

\* C5 amended: such a later /delete returns 404 when the storage client is
\* constructed and the existence check does not raise, and 500 otherwise;
\* never 200.
C5_SecondDelete404UnlessEnvFails ==
    \A w \in Workers :
        (Done(w) /\ req[w].route = "delete" /\ basis[w].hist.op = "delete")
        => resp[w].status = IF EnvFailed(w) THEN 500 ELSE 404

C5_Witness ==
    \E w \in Workers :
        /\ Done(w)
        /\ req[w].route = "delete"
        /\ basis[w].hist.op = "delete"
        /\ resp[w].status = 404

\* C6: of two simultaneous /upload requests with different filenames (working
\* client, no backend fault), each returns 200, and from then on the bucket
\* holds its content under its filename, whatever the other request does.
C6_ConcurrentUploads ==
    \A w \in Workers :
        Done(w)
        => /\ resp[w].status = 200
           /\ exists(bucket, KeyOf(req[w]))
           /\ bucket[KeyOf(req[w])] = req[w].files.file.stream

C6_Witness ==
    /\ \A w \in Workers : Done(w) /\ resp[w].status = 200
    /\ \E v, w \in Workers : bucket[KeyOf(req[v])] # bucket[KeyOf(req[w])]

\* C7: /list always answers 200; on success its count is the number of objects
\* in the bucket at the listing and its keys are exactly theirs, so every key
\* uploaded and not deleted since is listed and counted.
C7_ListCount ==
    \A w \in Workers :
        (Done(w) /\ req[w].route = "list")
        => /\ resp[w].status = 200
           /\ resp[w].body.message_class = "success"
                 => LET files == resp[w].body.files
                        listed == {files[i] : i \in 1..Len(files)}
                        uploaded == {k \in Keys : hist[k].op = "upload"}
                    IN /\ resp[w].body.count = Cardinality(DOMAIN bucket)
                       /\ listed = DOMAIN bucket
                       /\ uploaded \subseteq listed
                       /\ resp[w].body.count >= Cardinality(uploaded)

C7_Witness ==
    \E w \in Workers :
        /\ Done(w)
        /\ req[w].route = "list"
        /\ resp[w].body.count = 2
        /\ \A k \in Keys : hist[k].op = "upload"

\* C8 as stated: the identity shown is the service-account email when the
\* metadata query answers 200, the project descriptor when the query fails or
\* answers another status, and the "unknown" sentinel only when the client
\* cannot be initialised.
C8_IdentityOrder ==
    \A w \in Workers :
        (Done(w) /\ req[w].route \in {"home", "list"})
        => resp[w].body.identity =
              IF obs[w].idclient # "ok" THEN UNKNOWN_IDENTITY
              ELSE IF obs[w].meta = 200 THEN SERVICE_ACCOUNT
              ELSE PROJECT_IDENTITY

\* C9: of the simultaneous /delete requests for one existing key (working
\* client, no backend fault but NotFound), at most one returns 200 at any
\* time; once all have answered exactly one returned 200, the others 404 or
\* 500, and the key is gone.
C9_ConcurrentDeletes ==
    LET won == {w \in Workers : Done(w) /\ resp[w].status = 200}
    IN /\ Cardinality(won) <= 1
       /\ (\A w \in Workers : Done(w))
             => /\ Cardinality(won) = 1
                /\ \A w \in Workers : ~exists(bucket, KeyOf(req[w]))
                /\ \A w \in Workers \ won : resp[w].status \in {404, 500}

C9_Witness ==
    /\ \A w \in Workers : Done(w)
    /\ \E w \in Workers : resp[w].status = 500 /\ obs[w].backend = "notfound"

\* C10: the bucket changes only in the step in which an /upload or a /delete
\* answers 200: the upload sets the object under the uploaded filename and the
\* delete removes the named key, every other key keeping its presence and
\* content. No other request or outcome (/, /list, /download, /health, and any
\* /upload or /delete answered 400, 404 or 500) changes the bucket.
C10_Frame ==
    [][bucket' # bucket
       => \E w \in Workers :
             /\ Finishes(w)
             /\ resp'[w].status = 200
             /\ LET k == KeyOf(req[w])
                IN /\ \A x \in Keys \ {k} :
                         /\ exists(bucket', x) <=> exists(bucket, x)
                         /\ exists(bucket, x) => bucket'[x] = bucket[x]
                   /\ \/ /\ req[w].route = "upload"
                         /\ exists(bucket', k)
                         /\ bucket'[k] = req[w].files.file.stream
                      \/ /\ req[w].route = "delete"
                         /\ exists(bucket, k)
                         /\ ~exists(bucket', k)]_vars

C10_Witness ==
    \E w \in Workers :
        /\ Done(w)
        /\ req[w].route = "delete"
        /\ resp[w].status = 200
        /\ DOMAIN bucket = Keys \ {KeyOf(req[w])}

====
